---- MODULE Spec2Model ----
(***************************************************************************)
(* A model of the QuiZX numeric core: GF(2) matrices with blocked Gaussian *)
(* elimination (src/src/linalg.rs), exact/approximate scalars              *)
(* (src/src/scalar.rs) and the construction of tensors from diagrams and   *)
(* gate sequences (src/src/tensor.rs).                                     *)
(*                                                                         *)
(* Indices are 0-based as in the Rust source; TLA+ sequences are 1-based,  *)
(* so entry (r, c) of a matrix d is d[r + 1][c + 1].                       *)
(***************************************************************************)
EXTENDS Integers, Sequences, FiniteSets, TLC

VARIABLES
    mat,    \* the Mat2 receiver `self` of the matrix operations
    rhs,    \* the second Mat2 argument: right factor of `*`, recorder x
    mat0,   \* history: content of `self` when the call in progress began
    ret,    \* outcome of the last matrix operation
    gs,     \* locals of a gauss_aux call that is in progress (stepwise run)
    ty,     \* the coefficient type T of Scalar<T>: 1..8 for [Rational; n], 0 for Vec
    sout,   \* arguments and results of the last scalar operation
    graph,  \* the diagram g handed to to_tensor
    tt,     \* locals of the to_tensor call on g that is in progress
    ct      \* the gate sequence, its to_tensor call and the tensor built

vars == <<mat, rhs, mat0, ret, gs, ty, sout, graph, tt, ct>>

(***************************************************************************)
(* Bounds of the model.                                                    *)
(***************************************************************************)
MaxRows == 3        \* Mat2::new inputs: up to MaxRows x MaxCols ...
MaxCols == 3
WideRows == 2       \* ... and up to WideRows x WideCols (more than one block)
WideCols == 4
BuildDim == 4       \* largest dimension handed to zeros/ones/id
OpRows == 2         \* operand sizes of the elementary operations
OpCols == 2
StepRows == 3       \* matrix sizes of the stepwise elimination
StepCols == 2
MaxBlock == 2       \* block widths 1..MaxBlock of the stepwise elimination
MaxDenom == 4       \* phases n/d with 1 <= d <= MaxDenom ...
MaxNumer == 7       \* ... and -MaxNumer <= n <= MaxNumer
MaxExp == 7         \* sqrt2_pow exponents -MaxExp..MaxExp
MaxOps == 3         \* length of a chain of + and *
MaxOrder == 4       \* lengths 1..MaxOrder of the 0/1 lists given to from_int_coeffs
MaxVerts == 3       \* diagrams of 1..MaxVerts vertices ...
MaxEdges == 3       \* ... at most MaxEdges edges ...
MaxIO == 2          \* ... and at most MaxIO entries in inputs and outputs together
MaxGates == 3       \* circuits of at most MaxGates gates
MaxHad == 4         \* at most MaxHad hadamard_at on each axis
MaxHeld == 4        \* largest order the bounded coefficient type represents

(***************************************************************************)
(* Program constants.                                                      *)
(***************************************************************************)
DefaultBlock == 3   \* blocksize passed by gauss() and inverse()
MaxFixed == 8       \* fixed_size_scalar!(Scalar1, 1) .. (Scalar8, 8)
VecTy == 0          \* stands for the coefficient type Vec<Rational>
Sqrt2Order == 4     \* T::new(4) in sqrt2_pow
BoundedTy == MaxFixed + 1  \* stands for a Coeffs type of any order up to MaxHeld

Bit == {0, 1}

(***************************************************************************)
(* Mat2 construction and shape.                                            *)
(***************************************************************************)
\* Mat2::build, with the closure f given as the set of (x, y) where it is true
build(rows, cols, f) ==
    [x1 \in 1..rows |->
        [y1 \in 1..cols |-> IF <<x1 - 1, y1 - 1>> \in f THEN 1 ELSE 0]]

zeros(rows, cols) == build(rows, cols, {})
ones(rows, cols) == build(rows, cols, (0..(rows - 1)) \X (0..(cols - 1)))
id(dim) == build(dim, dim, {<<x, x>> : x \in 0..(dim - 1)})

num_rows(d) == Len(d)
num_cols(d) == IF Len(d) > 0 THEN Len(d[1]) ELSE 0

\* self[(r, c)], the Index<(usize, usize)> implementation
At(d, r, c) == d[r + 1][c + 1]

\* Mat2::new: every rectangular 0/1 content with the given shape
MatsOfShape(rows, cols) == [1..rows -> [1..cols -> Bit]]
MatsUpTo(maxr, maxc) ==
    UNION {MatsOfShape(r, c) : r \in 0..maxr, c \in 0..maxc}

(***************************************************************************)
(* impl RowColOps for Mat2                                                 *)
(***************************************************************************)
\* mutant: the sum is taken as a bitwise or instead of modulo 2
row_add_or(d, r0, r1) ==
    [d EXCEPT ![r1 + 1] =
        [i1 \in 1..num_cols(d) |->
            IF d[r0 + 1][i1] + d[r1 + 1][i1] > 0 THEN 1 ELSE 0]]

row_add(d, r0, r1) ==
    [d EXCEPT ![r1 + 1] =
        [i1 \in 1..num_cols(d) |-> (d[r0 + 1][i1] + d[r1 + 1][i1]) % 2]]

col_add(d, c0, c1) ==
    [i1 \in 1..num_rows(d) |->
        [d[i1] EXCEPT ![c1 + 1] = (d[i1][c0 + 1] + d[i1][c1 + 1]) % 2]]

row_swap(d, r0, r1) ==
    [d EXCEPT ![r0 + 1] = d[r1 + 1], ![r1 + 1] = d[r0 + 1]]

col_swap(d, c0, c1) ==
    [i1 \in 1..num_rows(d) |->
        [d[i1] EXCEPT ![c0 + 1] = d[i1][c1 + 1], ![c1 + 1] = d[i1][c0 + 1]]]

(***************************************************************************)
(* Mat2::transpose and impl Mul<&Mat2> for &Mat2                           *)
(***************************************************************************)
transpose(d) ==
    [i1 \in 1..num_cols(d) |-> [j1 \in 1..num_rows(d) |-> d[j1][i1]]]

RECURSIVE SumTo(_, _)
\* (0..n).map(f).sum::<u32>() with f given as a sequence of n terms
SumTo(f, n) == IF n = 0 THEN 0 ELSE f[n] + SumTo(f, n - 1)

\* mutant: the sum is not reduced modulo 2
MulEntryNoMod(l, r, x1, y1) ==
    SumTo([i1 \in 1..num_cols(l) |-> l[x1][i1] * r[i1][y1]], num_cols(l))

MulEntry(l, r, x1, y1) ==
    SumTo([i1 \in 1..num_cols(l) |-> l[x1][i1] * r[i1][y1]], num_cols(l)) % 2

MulDims(l, r) == num_cols(l) = num_rows(r)

mul(l, r) ==
    IF ~MulDims(l, r)
    THEN [kind |-> "panic"]
    ELSE [kind |-> "ok",
          val |-> [x1 \in 1..num_rows(l) |->
                     [y1 \in 1..num_cols(r) |-> MulEntry(l, r, x1, y1)]]]

(***************************************************************************)
(* Mat2::gauss_helper, as a machine over its locals.  One GStep is one     *)
(* loop iteration; a row operation is applied to self and mirrored on the  *)
(* recorder x in the same step.  The column recorder y is always the unit  *)
(* recorder () in every caller and is left out.                            *)
(***************************************************************************)
\* the recorder argument: () or a Mat2
UnitRec == [unit |-> TRUE, m |-> <<>>]
MatRec(m) == [unit |-> FALSE, m |-> m]
\* mutant: the recorder receives the operation with its rows exchanged
x_row_add_swapped(x, r0, r1) ==
    IF x.unit THEN x ELSE [x EXCEPT !.m = row_add(@, r1, r0)]

x_row_add(x, r0, r1) ==
    IF x.unit THEN x ELSE [x EXCEPT !.m = row_add(@, r0, r1)]

\* self.row_add(r0, r1); x.row_add(r0, r1);
RowOp(st, r0, r1) ==
    [st EXCEPT !.d = row_add(@, r0, r1),
               !.x = x_row_add(@, r0, r1),
               !.nops = @ + 1]

\* self.d[r][i0..i1].to_vec()
Chunk(st, r) == SubSeq(st.d[r + 1], st.i0 + 1, st.i1)
AllZero(ch) == \A k \in 1..Len(ch) : ch[k] = 0

Min(m, n) == IF m < n THEN m ELSE n

NumBlocks(cols, blocksize) ==
    IF cols % blocksize = 0 THEN cols \div blocksize
    ELSE (cols \div blocksize) + 1

\* the chunk loops of both passes: one row r against the chunks seen so far
ChunkRow(st, r) ==
    LET ch == Chunk(st, r) IN
    IF AllZero(ch) THEN st
    ELSE IF ch \in DOMAIN st.chunks
         THEN RowOp(st, st.chunks[ch], r)
         ELSE [st EXCEPT !.chunks = (ch :> r) @@ @]

\* mutant: the pivot search starts at row 0 instead of pivot_row
PivotCandidatesFromTop(st, from) ==
    {r0 \in 0..(st.rows - 1) : At(st.d, r0, st.p) # 0}

\* rows r0 in from..rows-1 with self.d[r0][p] != 0
PivotCandidates(st, from) ==
    {r0 \in from..(st.rows - 1) : At(st.d, r0, st.p) # 0}
SetMin(S) == CHOOSE m \in S : \A n \in S : m <= n

\* locals at entry of gauss_helper(full_reduce, blocksize, x, (), vec![])
GaussEntry(d, full_reduce, blocksize, x, overflow_checks) ==
    [pc |-> "fwd_block", d |-> d, x |-> x,
     full_reduce |-> full_reduce, blocksize |-> blocksize,
     overflow_checks |-> overflow_checks,
     rows |-> num_rows(d), cols |-> num_cols(d),
     pivot_row |-> 0,
     num_blocks |-> NumBlocks(num_cols(d), blocksize),
     sec |-> 0, i0 |-> 0, i1 |-> 0, chunks |-> <<>>,
     r |-> 0, p |-> 0, pcol |-> 0,
     pivot_cols |-> <<>>, pivot_cols1 |-> <<>>,
     rank |-> 0, nops |-> 0]

\* for sec in 0..num_blocks { i0, i1, chunks; ... }  /  let rank = pivot_row
FwdBlock(st) ==
    IF st.sec < st.num_blocks
    THEN [st EXCEPT !.pc = "fwd_chunk",
                    !.i0 = st.sec * st.blocksize,
                    !.i1 = Min(st.cols, (st.sec + 1) * st.blocksize),
                    !.chunks = <<>>,
                    !.r = st.pivot_row]
    ELSE [st EXCEPT !.pc = IF st.full_reduce THEN "rev_init" ELSE "done",
                    !.rank = st.pivot_row]

\* for r in pivot_row..rows { ... }
FwdChunk(st) ==
    IF st.r < st.rows
    THEN [ChunkRow(st, st.r) EXCEPT !.r = st.r + 1]
    ELSE [st EXCEPT !.pc = "fwd_col", !.p = st.i0]

\* for p in i0..i1 { for r0 in pivot_row..rows { if self.d[r0][p] != 0 {
\*   if r0 != pivot_row { row_add(r0, pivot_row) } ...
FwdCol(st) ==
    IF st.p < st.i1
    THEN LET cand == PivotCandidates(st, st.pivot_row) IN
         IF cand = {}
         THEN [st EXCEPT !.p = st.p + 1]
         ELSE LET r0 == SetMin(cand)
                  st1 == IF r0 # st.pivot_row
                         THEN RowOp(st, r0, st.pivot_row) ELSE st
              IN [st1 EXCEPT !.pc = "fwd_clear", !.r = st.pivot_row + 1]
    ELSE [st EXCEPT !.pc = "fwd_block", !.sec = st.sec + 1]

\* for r1 in pivot_row+1..rows { if pivot_row != r1 && self.d[r1][p] != 0
\*   { row_add(pivot_row, r1) } }  pivot_cols.push(p); pivot_row += 1; break
FwdClear(st) ==
    IF st.r < st.rows
    THEN LET st1 == IF st.pivot_row # st.r /\ At(st.d, st.r, st.p) # 0
                    THEN RowOp(st, st.pivot_row, st.r) ELSE st
         IN [st1 EXCEPT !.r = st.r + 1]
    ELSE [st EXCEPT !.pc = "fwd_col",
                    !.pivot_cols = Append(@, st.p),
                    !.pivot_row = st.pivot_row + 1,
                    !.p = st.p + 1]

\* if full_reduce { pivot_row -= 1; let mut pivot_cols1 = pivot_cols.clone();
\* On usize, 0 - 1 panics when overflow checks are on and wraps to usize::MAX
\* otherwise; the wrapped counter then indexes self.d[usize::MAX] in the
\* first chunk loop (a panic) unless there is no block to visit.
RevInit(st) ==
    IF st.pivot_row = 0
    THEN IF st.overflow_checks \/ st.num_blocks > 0
         THEN [st EXCEPT !.pc = "panic"]
         ELSE [st EXCEPT !.pc = "done"]
    ELSE [st EXCEPT !.pc = "rev_block",
                    !.pivot_row = st.pivot_row - 1,
                    !.pivot_cols1 = st.pivot_cols,
                    !.sec = st.num_blocks]

\* for sec in (0..num_blocks).rev() { i0, i1, chunks; ... }
RevBlock(st) ==
    IF st.sec > 0
    THEN [st EXCEPT !.pc = "rev_chunk",
                    !.sec = st.sec - 1,
                    !.i0 = (st.sec - 1) * st.blocksize,
                    !.i1 = Min(st.cols, st.sec * st.blocksize),
                    !.chunks = <<>>,
                    !.r = st.pivot_row]
    ELSE [st EXCEPT !.pc = "done"]

\* for r in (0..=pivot_row).rev() { ... }
RevChunk(st) ==
    IF st.r >= 0
    THEN [ChunkRow(st, st.r) EXCEPT !.r = st.r - 1]
    ELSE [st EXCEPT !.pc = "rev_pop"]

\* whether the popped pivot column lies in the block: !(i0 > pcol || pcol >= i1)
InBlock(st, pcol) == ~(st.i0 > pcol \/ pcol >= st.i1)

\* loop { if let Some(pcol) = pivot_cols1.pop() {
\*          if i0 > pcol || pcol >= i1 { break; } ... } else { break; } }
RevPop(st) ==
    IF Len(st.pivot_cols1) = 0
    THEN [st EXCEPT !.pc = "rev_block"]
    ELSE LET pcol == st.pivot_cols1[Len(st.pivot_cols1)]
             rest == SubSeq(st.pivot_cols1, 1, Len(st.pivot_cols1) - 1)
         IN IF ~InBlock(st, pcol)
            THEN [st EXCEPT !.pc = "rev_block", !.pivot_cols1 = rest]
            ELSE [st EXCEPT !.pc = "rev_clear", !.pivot_cols1 = rest,
                            !.pcol = pcol, !.r = 0]

\* for r in 0..pivot_row { if self.d[r][pcol] != 0 { row_add(pivot_row, r) } }
\* if pivot_row > 0 { pivot_row -= 1; }
RevClear(st) ==
    IF st.r < st.pivot_row
    THEN LET st1 == IF At(st.d, st.r, st.pcol) # 0
                    THEN RowOp(st, st.pivot_row, st.r) ELSE st
         IN [st1 EXCEPT !.r = st.r + 1]
    ELSE [st EXCEPT !.pc = "rev_pop",
                    !.pivot_row = IF st.pivot_row > 0
                                  THEN st.pivot_row - 1 ELSE st.pivot_row]

Halted(st) == st.pc \in {"done", "panic"}

GStep(st) ==
    CASE st.pc = "fwd_block" -> FwdBlock(st)
      [] st.pc = "fwd_chunk" -> FwdChunk(st)
      [] st.pc = "fwd_col"   -> FwdCol(st)
      [] st.pc = "fwd_clear" -> FwdClear(st)
      [] st.pc = "rev_init"  -> RevInit(st)
      [] st.pc = "rev_block" -> RevBlock(st)
      [] st.pc = "rev_chunk" -> RevChunk(st)
      [] st.pc = "rev_pop"   -> RevPop(st)
      [] st.pc = "rev_clear" -> RevClear(st)
      [] OTHER               -> st

RECURSIVE GRun(_)
\* gauss_helper run to its return (or panic)
GRun(st) == IF Halted(st) THEN st ELSE GRun(GStep(st))

gauss_helper(d, full_reduce, blocksize, x, overflow_checks) ==
    GRun(GaussEntry(d, full_reduce, blocksize, x, overflow_checks))

\* pub fn gauss(&mut self, full_reduce)
gauss(d, full_reduce, overflow_checks) ==
    gauss_helper(d, full_reduce, DefaultBlock, UnitRec, overflow_checks)

\* pub fn rank(&self): gauss(false) on a clone
rank(d) == gauss(d, FALSE, TRUE).rank

\* pub fn inverse(&self) -> Option<Mat2>
inverse(d, overflow_checks) ==
    IF num_rows(d) # num_cols(d)
    THEN [kind |-> "ok", some |-> FALSE, val |-> <<>>]
    ELSE LET fin == gauss_helper(d, TRUE, DefaultBlock,
                                 MatRec(id(num_rows(d))), overflow_checks)
         IN IF fin.pc = "panic"
            THEN [kind |-> "panic", some |-> FALSE, val |-> <<>>]
            ELSE IF fin.rank < num_rows(d)
                 THEN [kind |-> "ok", some |-> FALSE, val |-> <<>>]
                 ELSE [kind |-> "ok", some |-> TRUE, val |-> fin.x.m]


(***************************************************************************)
(* Reference notions the claims are stated against.                        *)
(***************************************************************************)
\* parity of the rows of d with (1-based) index in T, column by column
RowSum(d, T) ==
    [j \in 1..num_cols(d) |-> Cardinality({i \in T : d[i][j] = 1}) % 2]

\* the rows with index in S are linearly independent over GF(2)
Independent(d, S) ==
    \A T \in SUBSET S : T # {} => \E j \in 1..num_cols(d) : RowSum(d, T)[j] = 1

SetMax(S) == CHOOSE m \in S : \A n \in S : m >= n

\* size of a largest linearly independent set of rows
TrueRank(d) ==
    SetMax({Cardinality(S) : S \in {S1 \in SUBSET (1..num_rows(d)) : Independent(d, S1)}})

\* 0-based column of the leading 1 of (1-based) row i, or -1
Lead(d, i) ==
    LET nz == {j \in 1..num_cols(d) : d[i][j] = 1}
    IN IF nz = {} THEN -1 ELSE SetMin(nz) - 1

\* reduced row-echelon form with rk non-zero rows
IsRREF(d, rk) ==
    /\ rk <= num_rows(d)
    /\ \A i \in 1..rk : Lead(d, i) >= 0
    /\ \A i \in 1..(rk - 1) : Lead(d, i) < Lead(d, i + 1)
    /\ \A i \in 1..rk :
          \A k \in 1..num_rows(d) : k # i => d[k][Lead(d, i) + 1] = 0
    /\ \A i \in (rk + 1)..num_rows(d) : Lead(d, i) = -1

IsSquare(d) == num_rows(d) = num_cols(d)

(***************************************************************************)
(* Specification SpecGauss: gauss, rank and inverse applied to a matrix.   *)
(***************************************************************************)
NoRet == [op |-> "none", kind |-> "ok", n |-> 0]
NoGs == [pc |-> "idle"]
NoSout == [op |-> "none"]
NoGraph == [n |-> 0]
NoTt == [pc |-> "idle"]
NoCt == [pc |-> "idle"]

\* the matrices the elimination is run on
GaussInputs ==
    MatsUpTo(MaxRows, MaxCols)
    \cup MatsUpTo(WideRows, WideCols)
    \cup {id(n) : n \in 0..BuildDim}
    \cup {zeros(n, n) : n \in 0..BuildDim}
    \cup {ones(n, n) : n \in 0..BuildDim}

InitGauss ==
    /\ mat \in GaussInputs
    /\ rhs = <<>>
    /\ mat0 = mat
    /\ ret = NoRet
    /\ gs = NoGs
    /\ ty = VecTy
    /\ sout = NoSout
    /\ graph = NoGraph
    /\ tt = NoTt
    /\ ct = NoCt

\* each behaviour is one call on a freshly constructed matrix
Fresh == ret.op = "none"

\* m.gauss(full_reduce)
Gauss(full_reduce, overflow_checks) ==
    /\ Fresh
    /\ LET fin == gauss(mat, full_reduce, overflow_checks) IN
       /\ mat' = fin.d
       /\ ret' = [op |-> "gauss",
                  kind |-> IF fin.pc = "panic" THEN "panic" ELSE "ok",
                  full_reduce |-> full_reduce,
                  val |-> fin.rank]
    /\ UNCHANGED <<rhs, mat0, gs, ty, sout, graph, tt, ct>>

\* m.rank()
Rank ==
    /\ Fresh
    /\ ret' = [op |-> "rank", kind |-> "ok", val |-> rank(mat)]
    /\ UNCHANGED <<mat, rhs, mat0, gs, ty, sout, graph, tt, ct>>

\* m.inverse()
Inverse(overflow_checks) ==
    /\ Fresh
    /\ ret' = [op |-> "inverse"] @@ inverse(mat, overflow_checks)
    /\ UNCHANGED <<mat, rhs, mat0, gs, ty, sout, graph, tt, ct>>

NextGauss ==
    \/ \E fr \in BOOLEAN, oc \in BOOLEAN : Gauss(fr, oc)
    \/ \E oc \in BOOLEAN : Inverse(oc)

SpecGauss == InitGauss /\ [][NextGauss]_vars

(***************************************************************************)
(* Specification SpecRank: rank() applied to a matrix.                     *)
(***************************************************************************)
NextRank == Rank

SpecRank == InitGauss /\ [][NextRank]_vars

\* C1: for a square n x n matrix, inverse() is None exactly when rank() < n,
\* and a returned Some(B) satisfies A*B = B*A = id(n).
C1_InverseIsInverse ==
    (ret.op = "inverse" /\ ret.kind = "ok" /\ IsSquare(mat)) =>
        /\ (~ret.some) <=> (rank(mat) < num_rows(mat))
        /\ ret.some =>
              /\ mul(mat, ret.val) = [kind |-> "ok", val |-> id(num_rows(mat))]
              /\ mul(ret.val, mat) = [kind |-> "ok", val |-> id(num_rows(mat))]

\* C2: rank() returns the size of a largest linearly independent set of rows.
C2_RankIsTrueRank ==
    ret.op = "rank" => ret.val = TrueRank(mat)

\* two rows that agree on the first block and differ in the second
C2_Witness ==
    /\ ret.op = "rank"
    /\ num_cols(mat) > DefaultBlock
    /\ num_rows(mat) = 2
    /\ SubSeq(mat[1], 1, DefaultBlock) = SubSeq(mat[2], 1, DefaultBlock)
    /\ mat[1][1] = 1
    /\ ret.val = 2

\* C3: after gauss(true) returns, the matrix is in reduced row-echelon form
\* with `rank` non-zero rows.
C3_FullReduceIsRREF ==
    (ret.op = "gauss" /\ ret.kind = "ok" /\ ret.full_reduce) =>
        IsRREF(mat, ret.val)


(***************************************************************************)
(* Specification SpecElim: gauss_aux(full_reduce, blocksize, x) with x an  *)
(* identity matrix, observed after every mirrored row operation.           *)
(***************************************************************************)
RECURSIVE GRunToOp(_, _)
\* run on until one more row operation has been applied, or to the return
GRunToOp(st, n) ==
    IF Halted(st) \/ st.nops > n THEN st ELSE GRunToOp(GStep(st), n)

InitElim ==
    /\ mat \in MatsUpTo(StepRows, StepCols)
    /\ rhs = <<>>
    /\ mat0 = mat
    /\ ret = NoRet
    /\ gs = NoGs
    /\ ty = VecTy
    /\ sout = NoSout
    /\ graph = NoGraph
    /\ tt = NoTt
    /\ ct = NoCt

\* let mut x = Mat2::id(m.num_rows()); m.gauss_aux(full_reduce, blocksize, &mut x)
GaussAuxCall(full_reduce, blocksize, overflow_checks) ==
    /\ gs.pc = "idle"
    /\ Fresh
    /\ gs' = GaussEntry(mat, full_reduce, blocksize,
                        MatRec(id(num_rows(mat))), overflow_checks)
    /\ rhs' = id(num_rows(mat))
    /\ UNCHANGED <<mat, mat0, ret, ty, sout, graph, tt, ct>>

\* the call runs up to and including its next row operation
ElimStep ==
    /\ gs.pc # "idle"
    /\ ~Halted(gs)
    /\ gs' = GRunToOp(gs, gs.nops)
    /\ mat' = gs'.d
    /\ rhs' = gs'.x.m
    /\ UNCHANGED <<mat0, ret, ty, sout, graph, tt, ct>>

\* the call returns its rank, or has panicked
GaussAuxReturn ==
    /\ Halted(gs)
    /\ Fresh
    /\ ret' = [op |-> "gauss_aux",
               kind |-> IF gs.pc = "panic" THEN "panic" ELSE "ok",
               full_reduce |-> gs.full_reduce,
               val |-> gs.rank]
    /\ UNCHANGED <<mat, rhs, mat0, gs, ty, sout, graph, tt, ct>>

NextElim ==
    \/ \E fr \in BOOLEAN, w \in 1..MaxBlock, oc \in BOOLEAN :
          GaussAuxCall(fr, w, oc)
    \/ ElimStep
    \/ GaussAuxReturn

SpecElim == InitElim /\ [][NextElim]_vars

\* C4: with x initially the identity, x * M_original = M_current after every
\* row operation of the elimination and when it has returned.
C4_RecorderMirrors ==
    gs.pc # "idle" => mul(rhs, mat0) = [kind |-> "ok", val |-> mat]

C4_Witness ==
    /\ ret.op = "gauss_aux"
    /\ ret.kind = "ok"
    /\ gs.full_reduce
    /\ gs.nops >= 3
    /\ gs.num_blocks >= 2
    /\ mat # mat0


(***************************************************************************)
(* Specification SpecOps: the elementary operations, transpose and `*`.    *)
(* ret.n counts how often the same operation has been applied in a row.    *)
(***************************************************************************)
OpMats == MatsUpTo(OpRows, OpCols)

InitOps ==
    /\ mat \in OpMats
    /\ rhs = <<>>
    /\ mat0 = mat
    /\ ret = NoRet
    /\ gs = NoGs
    /\ ty = VecTy
    /\ sout = NoSout
    /\ graph = NoGraph
    /\ tt = NoTt
    /\ ct = NoCt

\* the same call may be repeated once
Again(op, i, j) ==
    \/ Fresh
    \/ ret.op = op /\ ret.i = i /\ ret.j = j /\ ret.n = 1

Times == IF Fresh THEN 1 ELSE ret.n + 1

\* mat.row_add(r0, r1)
RowAdd(r0, r1) ==
    /\ Again("row_add", r0, r1)
    /\ mat' = row_add(mat, r0, r1)
    /\ ret' = [op |-> "row_add", kind |-> "ok", i |-> r0, j |-> r1, n |-> Times]
    /\ UNCHANGED <<rhs, mat0, gs, ty, sout, graph, tt, ct>>

\* mat.row_swap(r0, r1)
RowSwap(r0, r1) ==
    /\ Again("row_swap", r0, r1)
    /\ mat' = row_swap(mat, r0, r1)
    /\ ret' = [op |-> "row_swap", kind |-> "ok", i |-> r0, j |-> r1, n |-> Times]
    /\ UNCHANGED <<rhs, mat0, gs, ty, sout, graph, tt, ct>>

\* mat.col_add(c0, c1)
ColAdd(c0, c1) ==
    /\ Again("col_add", c0, c1)
    /\ mat' = col_add(mat, c0, c1)
    /\ ret' = [op |-> "col_add", kind |-> "ok", i |-> c0, j |-> c1, n |-> Times]
    /\ UNCHANGED <<rhs, mat0, gs, ty, sout, graph, tt, ct>>

\* mat.col_swap(c0, c1)
ColSwap(c0, c1) ==
    /\ Again("col_swap", c0, c1)
    /\ mat' = col_swap(mat, c0, c1)
    /\ ret' = [op |-> "col_swap", kind |-> "ok", i |-> c0, j |-> c1, n |-> Times]
    /\ UNCHANGED <<rhs, mat0, gs, ty, sout, graph, tt, ct>>

\* mat.transpose(), then .transpose() of the returned copy
Transpose ==
    /\ Again("transpose", 0, 0)
    /\ ret' = [op |-> "transpose", kind |-> "ok", i |-> 0, j |-> 0, n |-> Times,
               val |-> IF Fresh THEN transpose(mat) ELSE transpose(ret.val)]
    /\ UNCHANGED <<mat, rhs, mat0, gs, ty, sout, graph, tt, ct>>

\* &mat * &b
Mul(b) ==
    /\ Fresh
    /\ rhs' = b
    /\ ret' = [op |-> "mul", i |-> 0, j |-> 0, n |-> 1] @@ mul(mat, b)
    /\ UNCHANGED <<mat, mat0, gs, ty, sout, graph, tt, ct>>

NextOps ==
    \/ \E r0, r1 \in 0..(num_rows(mat) - 1) : RowAdd(r0, r1)
    \/ \E r0, r1 \in 0..(num_rows(mat) - 1) : RowSwap(r0, r1)
    \/ \E c0, c1 \in 0..(num_cols(mat) - 1) : ColAdd(c0, c1)
    \/ \E c0, c1 \in 0..(num_cols(mat) - 1) : ColSwap(c0, c1)
    \/ Transpose
    \/ \E b \in OpMats : Mul(b)

SpecOps == InitOps /\ [][NextOps]_vars

\* C5 as stated: row_add(r0, r1) twice, and row_swap(r0, r1) twice, restore
\* the matrix, for any valid r0, r1.
C5_TwiceRestores ==
    (ret.op \in {"row_add", "row_swap"} /\ ret.n = 2) => mat = mat0

\* C5 amended: row_add(r0, r1) twice restores the matrix when r0 # r1, and
\* row_swap(r0, r1) twice restores it for any r0, r1.
C5_TwiceRestoresDistinct ==
    (ret.n = 2 /\ (ret.op = "row_swap" \/ (ret.op = "row_add" /\ ret.i # ret.j)))
        => mat = mat0

C5_Witness ==
    /\ ret.op = "row_add"
    /\ ret.n = 2
    /\ ret.i # ret.j
    /\ \E c \in 1..num_cols(mat) : mat[ret.i + 1][c] = 1

\* the (x, y) entry of the GF(2) product, as the parity of the number of
\* positions where row x of l and column y of r are both 1
ParityEntry(l, r, x1, y1) ==
    Cardinality({i \in 1..Len(l[x1]) : l[x1][i] = 1 /\ r[i][y1] = 1}) % 2

\* C6: `*` panics exactly when num_cols(A) # num_rows(B); otherwise the result
\* has num_rows(A) rows of num_cols(B) parity entries.
C6_MulContract ==
    ret.op = "mul" =>
        /\ (ret.kind = "panic") <=> (num_cols(mat) # num_rows(rhs))
        /\ ret.kind = "ok" =>
              /\ Len(ret.val) = num_rows(mat)
              /\ \A x1 \in 1..Len(ret.val) :
                    /\ Len(ret.val[x1]) = num_cols(rhs)
                    /\ \A y1 \in 1..num_cols(rhs) :
                          ret.val[x1][y1] = ParityEntry(mat, rhs, x1, y1)

C6_WitnessOk ==
    /\ ret.op = "mul"
    /\ ret.kind = "ok"
    /\ num_cols(mat) = 2
    /\ \E x1 \in 1..Len(ret.val) : \E y1 \in 1..num_cols(rhs) :
          /\ ret.val[x1][y1] = 0
          /\ mat[x1] = <<1, 1>>
          /\ rhs[1][y1] = 1
          /\ rhs[2][y1] = 1

\* C7: transpose() returns the c x r matrix T with T[i][j] = A[j][i], leaves
\* A unchanged, and transposing twice gives A back.
C7_TransposeInvolution ==
    ret.op = "transpose" =>
        /\ mat = mat0
        /\ ret.n = 1 =>
              /\ num_rows(ret.val) = num_cols(mat)
              /\ \A i \in 1..num_rows(ret.val) :
                    /\ Len(ret.val[i]) = num_rows(mat)
                    /\ \A j \in 1..num_rows(mat) : ret.val[i][j] = mat[j][i]
        /\ ret.n = 2 => ret.val = mat


(***************************************************************************)
(* num::rational::Rational: a pair <<numer, denom>> in lowest terms with   *)
(* denom > 0.                                                              *)
(***************************************************************************)
Abs(n) == IF n < 0 THEN -n ELSE n

RECURSIVE Gcd(_, _)
Gcd(m, n) == IF n = 0 THEN m ELSE Gcd(n, m % n)

Lcm(m, n) == (m * n) \div Gcd(m, n)

\* Rational::new(n, d): reduced, sign carried by the numerator
RNew(n, d) ==
    LET g == Gcd(Abs(n), Abs(d))
        sg == IF d < 0 THEN -1 ELSE 1
    IN <<(sg * n) \div g, (sg * d) \div g>>

RZero == <<0, 1>>
ROne == <<1, 1>>
RNeg(a) == <<-a[1], a[2]>>
RAdd(a, b) == RNew(a[1] * b[2] + b[1] * a[2], a[2] * b[2])
RSub(a, b) == RAdd(a, RNeg(b))
RMul(a, b) == RNew(a[1] * b[1], a[2] * b[2])

RECURSIVE RSumOver(_, _)
\* the sum of f[x] over x in S
RSumOver(f, S) ==
    IF S = {} THEN RZero
    ELSE LET x == CHOOSE y \in S : TRUE
         IN RAdd(f[x], RSumOver(f, S \ {x}))

RECURSIVE Pow2(_)
\* 1isize << n
Pow2(n) == IF n = 0 THEN 1 ELSE 2 * Pow2(n - 1)

(***************************************************************************)
(* Complex<f64>, read as the exact number it approximates: a finite sum    *)
(* of terms co * e^(i*pi*ph), kept as a function from the phases ph in     *)
(* [0, 1) to their non-zero rational coefficients co.  Rounding is not     *)
(* modelled; the representation is unique for sums over the phases k/4     *)
(* and for single terms.                                                   *)
(***************************************************************************)
\* co * e^(i*pi*ph) with ph brought into [0, 1) by e^(i*pi) = -1
CanonTerm(ph, co) ==
    LET m == ph[1] % (2 * ph[2]) IN
    IF m >= ph[2] THEN <<RNew(m - ph[2], ph[2]), RNeg(co)>>
    ELSE <<RNew(m, ph[2]), co>>

\* the sum of the terms f[x], x in DOMAIN f, each a pair <<phase, coefficient>>
CSum(f) ==
    LET phs == {f[x][1] : x \in DOMAIN f}
        tot == [ph \in phs |->
                  RSumOver([x \in DOMAIN f |-> f[x][2]],
                           {x \in DOMAIN f : f[x][1] = ph})]
    IN [ph \in {q \in phs : tot[q] # RZero} |-> tot[ph]]

\* Complex::new(re, 0.0) for a rational re
CReal(re) == CSum([x \in {0} |-> <<RZero, re>>])

\* Complex::new(-1.0, 0.0).powf(f)
CPowMinusOne(f) == CSum([x \in {0} |-> CanonTerm(f, ROne)])

CplxAdd(a, b) ==
    CSum([x \in ({0} \X DOMAIN a) \cup ({1} \X DOMAIN b) |->
            IF x[1] = 0 THEN <<x[2], a[x[2]]>> ELSE <<x[2], b[x[2]]>>])

CplxMul(a, b) ==
    CSum([x \in (DOMAIN a) \X (DOMAIN b) |->
            CanonTerm(RAdd(x[1], x[2]), RMul(a[x[1]], b[x[2]]))])

(***************************************************************************)
(* trait Coeffs and enum Scalar<T>.  Index i of a coefficient list is      *)
(* element i + 1 of the sequence.                                          *)
(***************************************************************************)
CoeffTypes == {VecTy} \cup (1..MaxFixed)

ZeroCoeffs(n) == [i \in 1..n |-> RZero]

None == [some |-> FALSE, coeffs |-> <<>>, pad |-> 0]
Some(coeffs, pad) == [some |-> TRUE, coeffs |-> coeffs, pad |-> pad]

\* Coeffs::new(sz) for [Rational; n], for Vec<Rational> and for the bounded
\* type, whose new(sz) is None when sz is more than it represents
CoeffsNew(t, sz) ==
    IF t = VecTy THEN Some(ZeroCoeffs(sz), 1)
    ELSE IF t = BoundedTy THEN (IF sz <= MaxHeld THEN Some(ZeroCoeffs(sz), 1) ELSE None)
    ELSE IF t % sz = 0 THEN Some(ZeroCoeffs(t), t \div sz)
    ELSE None

\* Coeffs::zero() and Coeffs::one()
CoeffsZero(t) == IF t \in {VecTy, BoundedTy} THEN <<RZero>> ELSE ZeroCoeffs(t)
CoeffsOne(t) ==
    IF t \in {VecTy, BoundedTy} THEN <<ROne>> ELSE [ZeroCoeffs(t) EXCEPT ![1] = ROne]

Exact(coeffs) == [tag |-> "Exact", coeffs |-> coeffs, c |-> CReal(RZero)]
Float(c) == [tag |-> "Float", coeffs |-> <<>>, c |-> c]

zero(t) == Exact(CoeffsZero(t))
one(t) == Exact(CoeffsOne(t))

lcm_with_padding(n1, n2) ==
    IF n1 = n2 THEN <<n1, 1, 1>>
    ELSE LET lcm0 == Lcm(n1, n2) IN <<lcm0, lcm0 \div n1, lcm0 \div n2>>

\* Scalar::float_value
float_value(sc) ==
    IF sc.tag = "Exact"
    THEN CSum([i \in 0..(Len(sc.coeffs) - 1) |->
                 CanonTerm(RNew(i, Len(sc.coeffs)), sc.coeffs[i + 1])])
    ELSE sc.c

\* Scalar::from_int_coeffs
from_int_coeffs(t, ints) ==
    LET nw == CoeffsNew(t, Len(ints)) IN
    IF nw.some
    THEN [kind |-> "ok",
          val |-> Exact([k \in 1..Len(nw.coeffs) |->
                           IF (k - 1) % nw.pad = 0 /\ (k - 1) \div nw.pad < Len(ints)
                           THEN RNew(ints[((k - 1) \div nw.pad) + 1], 1)
                           ELSE RZero])]
    ELSE [kind |-> "panic", val |-> zero(t)]

\* 2.0f64.powi(p)
PowiTwo(p) == IF p < 0 THEN RNew(1, Pow2(-p)) ELSE RNew(Pow2(p), 1)

\* impl Sqrt2 for Scalar<T>: sqrt2_pow(p)
sqrt2_pow(t, p) ==
    LET nw == CoeffsNew(t, Sqrt2Order) IN
    IF nw.some
    THEN IF p % 2 = 0
         THEN LET r == IF p < 0 THEN RNew(1, Pow2((-p) \div 2))
                       ELSE RNew(Pow2(p \div 2), 1)
              IN Exact([nw.coeffs EXCEPT ![1] = r])
         ELSE LET r == IF p < 0 THEN RNew(1, Pow2((-(p - 1)) \div 2))
                       ELSE RNew(Pow2((p - 1) \div 2), 1)
              IN Exact([nw.coeffs EXCEPT ![nw.pad + 1] = r,
                                         ![3 * nw.pad + 1] = RNeg(r)])
    ELSE Float(CReal(PowiTwo(p)))

\* mutant: a phase in [1, 2) is folded back without the sign flip
from_phase_no_sign(t, p) ==
    LET nw == CoeffsNew(t, p[2]) IN
    IF nw.some
    THEN LET rdenom == p[2] * nw.pad
             rnumer == (p[1] * nw.pad) % (2 * rdenom)
         IN IF rnumer >= rdenom
            THEN Exact([nw.coeffs EXCEPT ![rnumer - rdenom + 1] = ROne])
            ELSE Exact([nw.coeffs EXCEPT ![rnumer + 1] = ROne])
    ELSE Float(CPowMinusOne(p))

\* impl FromPhase for Scalar<T>: from_phase(p)
from_phase(t, p) ==
    LET nw == CoeffsNew(t, p[2]) IN
    IF nw.some
    THEN LET rdenom == p[2] * nw.pad
             rnumer == (p[1] * nw.pad) % (2 * rdenom)
         IN IF rnumer >= rdenom
            THEN Exact([nw.coeffs EXCEPT ![rnumer - rdenom + 1] = RNeg(ROne)])
            ELSE Exact([nw.coeffs EXCEPT ![rnumer + 1] = ROne])
    ELSE Float(CPowMinusOne(p))

\* mutant: a product folded back past the order is added, not subtracted
MulPosNoSign(i, j, lcm, pad, pad0, pad1) ==
    LET pos == (i * pad * pad0 + j * pad * pad1) % (2 * lcm) IN
    IF pos < lcm THEN <<pos, 1>> ELSE <<pos - lcm, 1>>

\* the position a product term of indices i, j is folded to, and its sign
MulPos(i, j, lcm, pad, pad0, pad1) ==
    LET pos == (i * pad * pad0 + j * pad * pad1) % (2 * lcm) IN
    IF pos < lcm THEN <<pos, 1>> ELSE <<pos - lcm, -1>>

\* coeffs0[i] * coeffs1[j] with the sign of its folding
MulTerm(coeffs0, coeffs1, i, j, sign) ==
    IF sign = 1 THEN RMul(coeffs0[i + 1], coeffs1[j + 1])
    ELSE RNeg(RMul(coeffs0[i + 1], coeffs1[j + 1]))

\* impl Mul<&Scalar<T>> for &Scalar<T>
scalar_mul(t, a, b) ==
    IF a.tag = "Float" THEN Float(CplxMul(a.c, float_value(b)))
    ELSE IF b.tag = "Float" THEN Float(CplxMul(float_value(a), b.c))
    ELSE LET lp == lcm_with_padding(Len(a.coeffs), Len(b.coeffs))
             nw == CoeffsNew(t, lp[1])
             ij == (0..(Len(a.coeffs) - 1)) \X (0..(Len(b.coeffs) - 1))
             pp == [x \in ij |-> MulPos(x[1], x[2], lp[1], nw.pad, lp[2], lp[3])]
             tm == [x \in ij |-> MulTerm(a.coeffs, b.coeffs, x[1], x[2], pp[x][2])]
         IN IF nw.some
            THEN Exact([k1 \in 1..Len(nw.coeffs) |->
                          RSumOver(tm, {x \in ij : pp[x][1] = k1 - 1})])
            ELSE Float(CplxMul(float_value(a), float_value(b)))

\* mutant: an Exact and a Float value are compared by their float values
scalar_eq_by_value(a, b) ==
    IF a.tag = "Float" /\ b.tag = "Float" THEN a.c = b.c
    ELSE IF a.tag = "Exact" /\ b.tag = "Exact"
    THEN LET lp == lcm_with_padding(Len(a.coeffs), Len(b.coeffs)) IN
         \A i \in 0..(lp[1] - 1) :
            (IF i % lp[2] = 0 THEN a.coeffs[(i \div lp[2]) + 1] ELSE RZero)
          = (IF i % lp[3] = 0 THEN b.coeffs[(i \div lp[3]) + 1] ELSE RZero)
    ELSE float_value(a) = float_value(b)

\* impl PartialEq for Scalar<T>
scalar_eq(a, b) ==
    IF a.tag = "Float" /\ b.tag = "Float" THEN a.c = b.c
    ELSE IF a.tag = "Exact" /\ b.tag = "Exact"
    THEN LET lp == lcm_with_padding(Len(a.coeffs), Len(b.coeffs)) IN
         \A i \in 0..(lp[1] - 1) :
            (IF i % lp[2] = 0 THEN a.coeffs[(i \div lp[2]) + 1] ELSE RZero)
          = (IF i % lp[3] = 0 THEN b.coeffs[(i \div lp[3]) + 1] ELSE RZero)
    ELSE FALSE

\* impl AbsDiffEq for Scalar<T>: the float values agree within 1e-6
abs_diff_eq(a, b) == float_value(a) = float_value(b)

(***************************************************************************)
(* Specification SpecScalar: scalar constructors and `*` at one            *)
(* coefficient type.                                                       *)
(***************************************************************************)
\* the rational phases n/d handed to from_phase
Phases == {RNew(n, d) : n \in (-MaxNumer)..MaxNumer, d \in 1..MaxDenom}

InitScalar ==
    /\ mat = <<>>
    /\ rhs = <<>>
    /\ mat0 = <<>>
    /\ ret = NoRet
    /\ gs = NoGs
    /\ ty \in CoeffTypes
    /\ sout = NoSout
    /\ graph = NoGraph
    /\ tt = NoTt
    /\ ct = NoCt

\* Scalar::<T>::from_phase(p) * Scalar::<T>::from_phase(q), beside from_phase(p + q)
MulPhases(p, q) ==
    /\ sout.op = "none"
    /\ sout' = [op |-> "mul_phases", p |-> p, q |-> q,
                lhs |-> from_phase(ty, p),
                rhs |-> from_phase(ty, q),
                val |-> scalar_mul(ty, from_phase(ty, p), from_phase(ty, q)),
                sum |-> from_phase(ty, RAdd(p, q))]
    /\ UNCHANGED <<mat, rhs, mat0, ret, gs, ty, graph, tt, ct>>

\* Scalar::<T>::sqrt2_pow(k)
Sqrt2Pow(k) ==
    /\ sout.op = "none"
    /\ sout' = [op |-> "sqrt2_pow", k |-> k, val |-> sqrt2_pow(ty, k)]
    /\ UNCHANGED <<mat, rhs, mat0, ret, gs, ty, graph, tt, ct>>

NextScalar ==
    \/ \E p, q \in Phases : MulPhases(p, q)
    \/ \E k \in (-MaxExp)..MaxExp : Sqrt2Pow(k)

SpecScalar == InitScalar /\ [][NextScalar]_vars

\* C8: from_phase(p) * from_phase(q) equals from_phase(p + q) (as values);
\* when both factors are Exact the product is Exact and == from_phase(p + q).
C8_PhaseProduct ==
    sout.op = "mul_phases" =>
        /\ abs_diff_eq(sout.val, sout.sum)
        /\ (sout.lhs.tag = "Exact" /\ sout.rhs.tag = "Exact") =>
              /\ sout.val.tag = "Exact"
              /\ scalar_eq(sout.val, sout.sum)
        /\ ty = VecTy => sout.lhs.tag = "Exact" /\ sout.rhs.tag = "Exact"
        /\ (ty # VecTy /\ ty % sout.p[2] = 0 /\ ty % sout.q[2] = 0) =>
              sout.lhs.tag = "Exact" /\ sout.rhs.tag = "Exact"

\* an exact product over Vec whose index wraps (sign flip) and whose sum of
\* phases has a smaller denominator than the product's order
C8_Witness ==
    /\ sout.op = "mul_phases"
    /\ ty = VecTy
    /\ sout.p = <<3, 4>>
    /\ sout.q = <<3, 4>>
    /\ sout.val = Exact(<<RZero, RZero, RNeg(ROne), RZero>>)
    /\ sout.sum = Exact(<<RZero, RNeg(ROne)>>)

\* the value 2^n for an integer n
RPow2(n) == IF n < 0 THEN RNew(1, Pow2(-n)) ELSE RNew(Pow2(n), 1)

\* C9: sqrt2_pow(k) denotes sqrt(2)^k in every coefficient type: for even k
\* its value is 2^(k/2), for odd k its square is 2^k; sqrt2_pow(0) == one().
C9_Sqrt2PowValue ==
    sout.op = "sqrt2_pow" =>
        /\ sout.k % 2 = 0 =>
              float_value(sout.val) = CReal(RPow2(sout.k \div 2))
        /\ sout.k % 2 = 1 =>
              CplxMul(float_value(sout.val), float_value(sout.val))
                  = CReal(RPow2(sout.k))
        /\ sout.k = 0 => scalar_eq(sout.val, one(ty))

\* C10: for even k, sqrt2_pow(k) is Exact in every coefficient type, with
\* 2^(k/2) at index 0 and zero elsewhere.
C10_EvenPowerExact ==
    (sout.op = "sqrt2_pow" /\ sout.k % 2 = 0) =>
        /\ sout.val.tag = "Exact"
        /\ sout.val.coeffs[1] = RPow2(sout.k \div 2)
        /\ \A i \in 2..Len(sout.val.coeffs) : sout.val.coeffs[i] = RZero


(***************************************************************************)
(* `+` on scalars, the Float constructors, and specification SpecArith:    *)
(* a running value combined with further operands by + and *, and single   *)
(* calls of ==, from_scalar and from_phase.                                *)
(***************************************************************************)
\* Scalar::real(re) and Scalar::complex(re, im)
real(re) == Float(CReal(re))
complex(re, im) ==
    Float(CSum([x \in {0, 1} |->
                  IF x = 0 THEN <<RZero, re>> ELSE <<RNew(1, 2), im>>]))

\* coefficient i of coeffs0 lands at index i * step of the padded list
PadAt(coeffs0, step, k) ==
    IF k % step = 0 /\ k \div step < Len(coeffs0)
    THEN coeffs0[(k \div step) + 1] ELSE RZero

\* mutant: an Exact left operand is returned as it is when the right one is Float
scalar_add_keep_left(t, a, b) ==
    IF a.tag = "Float" THEN Float(CplxAdd(a.c, float_value(b)))
    ELSE a

\* impl Add<&Scalar<T>> for &Scalar<T>
scalar_add(t, a, b) ==
    IF a.tag = "Float" THEN Float(CplxAdd(a.c, float_value(b)))
    ELSE IF b.tag = "Float" THEN Float(CplxAdd(float_value(a), b.c))
    ELSE LET lp == lcm_with_padding(Len(a.coeffs), Len(b.coeffs))
             nw == CoeffsNew(t, lp[1])
         IN IF nw.some
            THEN Exact([k1 \in 1..Len(nw.coeffs) |->
                          RAdd(PadAt(a.coeffs, nw.pad * lp[2], k1 - 1),
                               PadAt(b.coeffs, nw.pad * lp[3], k1 - 1))])
            ELSE Float(CplxAdd(float_value(a), float_value(a)))

\* the operands: the constants of the traits Zero, One, Sqrt2 and FromPhase
\* at type t (Exact or Float as the type allows) and two Floats
ArithPool(t) ==
    {zero(t), one(t), sqrt2_pow(t, 1), from_phase(t, RNew(1, 2)),
     real(RNew(1, 2)), complex(RZero, ROne)}

\* Vec<Rational>, [Rational; 1] and the order sqrt(2) needs
ArithTypes == {VecTy, 1, Sqrt2Order}

InitArith ==
    /\ mat = <<>>
    /\ rhs = <<>>
    /\ mat0 = <<>>
    /\ ret = NoRet
    /\ gs = NoGs
    /\ ty \in ArithTypes
    /\ sout = NoSout
    /\ graph = NoGraph
    /\ tt = NoTt
    /\ ct = NoCt

\* let mut acc = a;
Start(a) ==
    /\ sout.op = "none"
    /\ sout' = [op |-> "start", side |-> "none", val |-> a, n |-> 0,
                seen |-> (a.tag = "Float"), b |-> a]
    /\ UNCHANGED <<mat, rhs, mat0, ret, gs, ty, graph, tt, ct>>

Running == sout.op \in {"start", "add", "mul"} /\ sout.n < MaxOps

Step(op, side, b, val) ==
    sout' = [op |-> op, side |-> side, val |-> val, n |-> sout.n + 1,
             seen |-> (sout.seen \/ b.tag = "Float"), b |-> b]

\* acc = &acc + &b
AddRight(b) ==
    /\ Running
    /\ Step("add", "r", b, scalar_add(ty, sout.val, b))
    /\ UNCHANGED <<mat, rhs, mat0, ret, gs, ty, graph, tt, ct>>

\* acc = &b + &acc
AddLeft(b) ==
    /\ Running
    /\ Step("add", "l", b, scalar_add(ty, b, sout.val))
    /\ UNCHANGED <<mat, rhs, mat0, ret, gs, ty, graph, tt, ct>>

\* acc = &acc * &b
MulRight(b) ==
    /\ Running
    /\ Step("mul", "r", b, scalar_mul(ty, sout.val, b))
    /\ UNCHANGED <<mat, rhs, mat0, ret, gs, ty, graph, tt, ct>>

\* acc = &b * &acc
MulLeft(b) ==
    /\ Running
    /\ Step("mul", "l", b, scalar_mul(ty, b, sout.val))
    /\ UNCHANGED <<mat, rhs, mat0, ret, gs, ty, graph, tt, ct>>

NextArith ==
    \/ \E a \in ArithPool(ty) : Start(a)
    \/ \E b \in ArithPool(ty) : AddRight(b)
    \/ \E b \in ArithPool(ty) : AddLeft(b)
    \/ \E b \in ArithPool(ty) : MulRight(b)
    \/ \E b \in ArithPool(ty) : MulLeft(b)

SpecArith == InitArith /\ [][NextArith]_vars

\* C11: Float is absorbing: once a Float operand has entered a chain of + and
\* *, on either side, the running value is Float, also when the other operand
\* is Exact zero or one; a Float never turns back into an Exact.
C11_FloatAbsorbing ==
    (sout.op \in {"start", "add", "mul"} /\ sout.seen) => sout.val.tag = "Float"

\* a Float running value to which the Exact zero is then added on the left
C11_Witness ==
    /\ sout.op = "add"
    /\ sout.side = "l"
    /\ sout.n = MaxOps
    /\ sout.seen
    /\ sout.b = zero(ty)
    /\ sout.val.tag = "Float"


(***************************************************************************)
(* Specification SpecConv: single calls of ==, from_scalar and from_phase  *)
(* at every coefficient type.                                              *)
(***************************************************************************)
\* Scalar::to_float
to_float(sc) == Float(float_value(sc))

\* impl Mod2 for Rational
mod2(p) ==
    LET num == p[1] % (2 * p[2]) IN
    IF num > p[2] THEN RNew(num - 2 * p[2], p[2]) ELSE RNew(num, p[2])

\* mutant: the source coefficients are copied to the front, without padding
from_scalar_no_pad(d, sc) ==
    IF sc.tag = "Exact"
    THEN LET nw == CoeffsNew(d, Len(sc.coeffs)) IN
         IF nw.some
         THEN Exact([k1 \in 1..Len(nw.coeffs) |-> PadAt(sc.coeffs, 1, k1 - 1)])
         ELSE Float(float_value(sc))
    ELSE Float(sc.c)

\* impl FromScalar<Scalar<T>> for Scalar<S>, S the coefficient type d
from_scalar(d, sc) ==
    IF sc.tag = "Exact"
    THEN LET nw == CoeffsNew(d, Len(sc.coeffs)) IN
         IF nw.some
         THEN Exact([k1 \in 1..Len(nw.coeffs) |-> PadAt(sc.coeffs, nw.pad, k1 - 1)])
         ELSE Float(float_value(sc))
    ELSE Float(sc.c)

\* the lists handed to from_int_coeffs
IntLists == UNION {[1..n -> {0, 1}] : n \in 1..MaxOrder}

\* the Exact values of type t that from_int_coeffs builds
ExactValues(t) ==
    {from_int_coeffs(t, ints).val : ints \in {l \in IntLists : CoeffsNew(t, Len(l)).some}}

InitConv ==
    /\ mat = <<>>
    /\ rhs = <<>>
    /\ mat0 = <<>>
    /\ ret = NoRet
    /\ gs = NoGs
    /\ ty \in CoeffTypes
    /\ sout = NoSout
    /\ graph = NoGraph
    /\ tt = NoTt
    /\ ct = NoCt

\* a == b and b == a for two Exact values
Eq(a, b) ==
    /\ sout.op = "none"
    /\ sout' = [op |-> "eq", a |-> a, b |-> b,
                eq |-> scalar_eq(a, b), rev |-> scalar_eq(b, a)]
    /\ UNCHANGED <<mat, rhs, mat0, ret, gs, ty, graph, tt, ct>>

\* a == c.to_float() and c.to_float() == a for Exact a, c
EqFloat(a, c) ==
    /\ sout.op = "none"
    /\ sout' = [op |-> "eq", a |-> a, b |-> to_float(c),
                eq |-> scalar_eq(a, to_float(c)), rev |-> scalar_eq(to_float(c), a)]
    /\ UNCHANGED <<mat, rhs, mat0, ret, gs, ty, graph, tt, ct>>

\* Scalar::<S>::from_scalar(&s) for s of type src, and the conversion back
FromScalar(src, sc) ==
    /\ sout.op = "none"
    /\ sout' = [op |-> "from_scalar", src |-> src, a |-> sc,
                val |-> from_scalar(ty, sc),
                back |-> from_scalar(src, from_scalar(ty, sc))]
    /\ UNCHANGED <<mat, rhs, mat0, ret, gs, ty, graph, tt, ct>>

\* Scalar::<T>::from_phase(p), beside from_phase(p + 2) and from_phase(p.mod2())
FromPhase(p) ==
    /\ sout.op = "none"
    /\ sout' = [op |-> "from_phase", p |-> p,
                val |-> from_phase(ty, p),
                plus2 |-> from_phase(ty, RAdd(p, RNew(2, 1))),
                red |-> from_phase(ty, mod2(p))]
    /\ UNCHANGED <<mat, rhs, mat0, ret, gs, ty, graph, tt, ct>>

NextConv ==
    \/ \E a, b \in ExactValues(ty) : Eq(a, b)
    \/ \E a \in ExactValues(ty) : \E c \in {a, zero(ty), one(ty)} : EqFloat(a, c)
    \/ \E src \in CoeffTypes :
          \E sc \in ExactValues(src) \cup {to_float(x) : x \in ExactValues(src)} :
             FromScalar(src, sc)
    \/ \E p \in Phases : FromPhase(p)

SpecConv == InitConv /\ [][NextConv]_vars

\* the coefficient list of order n re-expressed at order l, a multiple of n
Reexpress(coeffs, l) ==
    [k1 \in 1..l |->
        IF (k1 - 1) % (l \div Len(coeffs)) = 0
        THEN coeffs[((k1 - 1) \div (l \div Len(coeffs))) + 1] ELSE RZero]

\* C12: two Exact values are == exactly when their re-expressions at the lcm
\* of their orders agree at every position; an Exact and a Float value are
\* never ==, in either order.
C12_ScalarEquality ==
    sout.op = "eq" =>
        /\ (sout.a.tag = "Exact" /\ sout.b.tag = "Exact") =>
              LET l == Lcm(Len(sout.a.coeffs), Len(sout.b.coeffs))
                  same == Reexpress(sout.a.coeffs, l) = Reexpress(sout.b.coeffs, l)
              IN /\ sout.eq <=> same
                 /\ sout.rev <=> same
        /\ (sout.a.tag # sout.b.tag) => (~sout.eq /\ ~sout.rev)

\* two equal values of different orders (1 + w^2 at order 4 and 1 + w at order 2)
C12_WitnessPadded ==
    /\ sout.op = "eq"
    /\ sout.a.tag = "Exact"
    /\ sout.b.tag = "Exact"
    /\ Len(sout.a.coeffs) = 4
    /\ Len(sout.b.coeffs) = 2
    /\ sout.b.coeffs = <<ROne, ROne>>
    /\ sout.eq
    /\ sout.rev

\* C13 as stated: from_scalar gives Exact, coefficient i at index i*(M/N),
\* exactly when the source order N divides the destination capacity M (always,
\* unpadded, for Vec), Float otherwise and for a Float source; whenever the
\* conversion stays Exact, converting back gives a value == the original.
C13_FromScalarRoundTrip ==
    sout.op = "from_scalar" =>
        /\ sout.a.tag = "Float" => sout.val = Float(sout.a.c)
        /\ sout.a.tag = "Exact" =>
              LET n == Len(sout.a.coeffs)
                  fits == ty = VecTy \/ ty % n = 0
                  m == IF ty = VecTy THEN n ELSE ty
              IN /\ sout.val.tag = "Exact" <=> fits
                 /\ fits => sout.val.coeffs = Reexpress(sout.a.coeffs, m)
                 /\ ~fits => sout.val = to_float(sout.a)
                 /\ fits => scalar_eq(sout.back, sout.a)

\* C13 amended: as above, but the conversion back gives a value == the
\* original only when the source type is Vec or has the destination's
\* capacity; from a larger fixed capacity back to a smaller one it gives the
\* Float of the same value.
C13_FromScalar ==
    sout.op = "from_scalar" =>
        /\ sout.a.tag = "Float" => sout.val = Float(sout.a.c)
        /\ sout.a.tag = "Exact" =>
              LET n == Len(sout.a.coeffs)
                  fits == ty = VecTy \/ ty % n = 0
                  m == IF ty = VecTy THEN n ELSE ty
                  returns == sout.src = VecTy \/ ty = VecTy \/ sout.src = ty
              IN /\ sout.val.tag = "Exact" <=> fits
                 /\ fits => sout.val.coeffs = Reexpress(sout.a.coeffs, m)
                 /\ ~fits => sout.val = to_float(sout.a)
                 /\ (fits /\ returns) => scalar_eq(sout.back, sout.a)
                 /\ (fits /\ ~returns) =>
                       sout.back.tag = "Float" /\ abs_diff_eq(sout.back, sout.a)

\* an order-2 Vec value padded into [Rational; 4] and converted back
C13_Witness ==
    /\ sout.op = "from_scalar"
    /\ sout.src = VecTy
    /\ ty = 4
    /\ sout.a = Exact(<<ROne, ROne>>)
    /\ sout.val = Exact(<<ROne, RZero, ROne, RZero>>)
    /\ sout.back.tag = "Exact"
    /\ Len(sout.back.coeffs) = 4

\* C14: for p = a/b in lowest terms, from_phase(p) is Exact exactly when b
\* divides the fixed order (always for Vec) and Float otherwise; when Exact it
\* has one non-zero coefficient s = +1 or -1 at an index k < N with
\* s * w^k = w^(a*N/b) under w^N = -1, so from_phase(p + 2) and
\* from_phase(p mod 2) are == from_phase(p).
C14_FromPhaseExact ==
    sout.op = "from_phase" =>
        LET a == sout.p[1]
            b == sout.p[2]
            fits == ty = VecTy \/ ty % b = 0
            n == Len(sout.val.coeffs)
            nz == {k \in 1..n : sout.val.coeffs[k] # RZero}
        IN /\ sout.val.tag = "Exact" <=> fits
           /\ ~fits => sout.val = Float(CPowMinusOne(sout.p))
           /\ fits =>
                 /\ n = (IF ty = VecTy THEN b ELSE ty)
                 /\ Cardinality(nz) = 1
                 /\ \A k \in nz :
                       LET e == a * (n \div b) - (k - 1) IN
                       /\ e % n = 0
                       /\ sout.val.coeffs[k] =
                             (IF (e \div n) % 2 = 0 THEN ROne ELSE RNeg(ROne))
                 /\ scalar_eq(sout.plus2, sout.val)
                 /\ scalar_eq(sout.red, sout.val)

\* a negative phase that folds to a negated coefficient: e^(-i*pi/4) = -w^3
C14_Witness ==
    /\ sout.op = "from_phase"
    /\ ty = 4
    /\ sout.p = <<-1, 4>>
    /\ sout.val = Exact(<<RZero, RZero, RZero, RNeg(ROne)>>)


(***************************************************************************)
(* The diagram (trait GraphLike), read through the accessors to_tensor     *)
(* uses.  Vertices are 0 .. n-1; the type of vertex v is vtype[v + 1]; ed  *)
(* gives each pair <<u, w>>, u < w, its edge type or "none".  The diagram  *)
(* is simple: no self-loops, no parallel edges.                            *)
(***************************************************************************)
VPairs(n) == {x \in (0..(n - 1)) \X (0..(n - 1)) : x[1] < x[2]}

vertices(d) == 0..(d.n - 1)
num_vertices(d) == d.n
vertex_type(d, v) == d.vtype[v + 1]
inputs(d) == d.inputs
outputs(d) == d.outputs

\* the (neighbour, edge type) pairs of v
incident_edges(d, v) ==
    {<<x[2], d.ed[x]>> : x \in {y \in VPairs(d.n) : y[1] = v /\ d.ed[y] # "none"}}
    \cup {<<x[1], d.ed[x]>> : x \in {y \in VPairs(d.n) : y[2] = v /\ d.ed[y] # "none"}}

degree(d, v) == Cardinality(incident_edges(d, v))

RECURSIVE Ascending(_)
\* the elements of a set of vertices in increasing order
Ascending(S) ==
    IF S = {} THEN <<>>
    ELSE LET m == CHOOSE x \in S : \A y \in S : x <= y
         IN <<m>> \o Ascending(S \ {m})

RECURSIVE Reverse(_)
Reverse(sq) == IF sq = <<>> THEN <<>> ELSE Reverse(Tail(sq)) \o <<Head(sq)>>

\* VecDeque::iter().position(|x| *x == v): 0-based, -1 for None
Position(sq, v) ==
    IF \E i \in 1..Len(sq) : sq[i] = v
    THEN (CHOOSE i \in 1..Len(sq) : sq[i] = v /\ \A j \in 1..(i - 1) : sq[j] # v) - 1
    ELSE -1

\* a sequence without its element at 0-based position i (unchanged when out of range)
RemoveAt(sq, i) ==
    IF i < 0 \/ i >= Len(sq) THEN sq
    ELSE [k \in 1..(Len(sq) - 1) |-> IF k <= i THEN sq[k] ELSE sq[k + 1]]

\* the sequences over S of length at most n
SeqsUpTo(S, n) == UNION {[1..k -> S] : k \in 0..n}

(***************************************************************************)
(* impl ToTensor for G: to_tensor on the diagram `graph`, step by step.    *)
(* The running tensor a is kept as its shape (the extents of its axes);   *)
(* its entries influence no branch of the construction.  Two fields record *)
(* what the code does without reading it back: axv[i] is the vertex whose  *)
(* introduction created axis i of a (-1 for the axis of array![one]), and  *)
(* applied[x] counts the delta_at / cphase_at applied for the edge x.      *)
(***************************************************************************)
PanicTt(msg) == [pc |-> "panic", msg |-> msg]

\* the shape of a without axis i (sum_axis)
sum_axis(shape, i) == RemoveAt(shape, i)

\* delta_at / cphase_at on the axes qs of a tensor of this shape: the small
\* tensor of 2^Len(qs) entries must take the shape that is 2 at qs, 1 elsewhere
AxesOk(shape, qs) ==
    /\ \A i \in 1..Len(qs) : qs[i] >= 0 /\ qs[i] < Len(shape)
    /\ \A i, j \in 1..Len(qs) : i # j => qs[i] # qs[j]
    /\ \A i \in 1..Len(qs) : shape[qs[i] + 1] = 2

InitDiagram ==
    /\ mat = <<>>
    /\ rhs = <<>>
    /\ mat0 = <<>>
    /\ ret = NoRet
    /\ gs = NoGs
    /\ ty = VecTy
    /\ sout = NoSout
    /\ \E n \in 1..MaxVerts :
       \E vt \in [1..n -> {"B", "Z", "H"}] :
       \E ed \in {e \in [VPairs(n) -> {"none", "N", "H"}] :
                    Cardinality({x \in VPairs(n) : e[x] # "none"}) <= MaxEdges} :
       \E inp \in SeqsUpTo({v \in 0..(n - 1) : vt[v + 1] = "B"}, MaxIO) :
       \E out \in SeqsUpTo({v \in 0..(n - 1) : vt[v + 1] = "B"}, MaxIO - Len(inp)) :
          graph = [n |-> n, vtype |-> vt, ed |-> ed, inputs |-> inp, outputs |-> out]
    /\ tt = NoTt
    /\ ct = NoCt

\* lines 160-187: the type check, the vertex ordering, the boundary check
Begin ==
    /\ tt.pc = "idle"
    /\ LET mid == Ascending({v \in vertices(graph) : vertex_type(graph, v) # "B"})
           vs == inputs(graph) \o mid \o outputs(graph)
       IN tt' = IF \E v \in vertices(graph) : vertex_type(graph, v) \notin {"B", "Z"}
                THEN PanicTt("Vertex type currently unsupported")
                ELSE IF Len(vs) < num_vertices(graph)
                THEN PanicTt("All boundary vertices must be an input or an output")
                ELSE [pc |-> "loop", msg |-> "", a |-> <<1>>, vs |-> Reverse(vs),
                      indexv |-> <<>>, seenv |-> <<>>, fst |-> TRUE, num_had |-> 0,
                      v |-> -1, deg_v |-> 0, rest |-> {}, w |-> -1, vi |-> -1,
                      wi |-> -1, axv |-> <<-1>>,
                      applied |-> [x \in VPairs(graph.n) |-> 0]]
    /\ UNCHANGED <<mat, rhs, mat0, ret, gs, ty, sout, graph, ct>>

\* lines 189-209: the next vertex v of the ordering gets the new leading axis
Introduce ==
    /\ tt.pc = "loop"
    /\ tt.vs # <<>>
    /\ LET v == Head(tt.vs) IN
       tt' = [tt EXCEPT !.pc = "edges",
                        !.a = IF tt.fst THEN <<2>> ELSE <<2>> \o tt.a,
                        !.axv = IF tt.fst THEN <<v>> ELSE <<v>> \o tt.axv,
                        !.fst = FALSE,
                        !.indexv = <<v>> \o tt.indexv,
                        !.v = v,
                        !.deg_v = 0,
                        !.rest = incident_edges(graph, v)]
    /\ UNCHANGED <<mat, rhs, mat0, ret, gs, ty, sout, graph, ct>>

\* the pair of VPairs that stands for the edge between v and w
EdgeOf(v, w) == IF v < w THEN <<v, w>> ELSE <<w, v>>

\* lines 211-228: one pair (w, et) of incident_edges(v)
Edge(e) ==
    /\ tt.pc = "edges"
    /\ e \in tt.rest
    /\ LET w == e[1]
           vi == Position(tt.indexv, tt.v)
           wi == Position(tt.indexv, w)
       IN tt' = IF w \notin DOMAIN tt.seenv
                THEN [tt EXCEPT !.rest = tt.rest \ {e}]
                ELSE IF vi < 0 THEN PanicTt("v should be in indexv")
                ELSE IF wi < 0 THEN PanicTt("w should be in indexv")
                ELSE IF ~AxesOk(tt.a, <<vi, wi>>)
                THEN PanicTt(IF e[2] = "N" THEN "Bad indices for delta_at"
                             ELSE "Bad indices for cphase_at")
                ELSE [tt EXCEPT !.pc = "contract_v",
                                !.rest = tt.rest \ {e},
                                !.deg_v = tt.deg_v + 1,
                                !.seenv = [tt.seenv EXCEPT ![w] = tt.seenv[w] + 1],
                                !.w = w,
                                !.vi = vi,
                                !.wi = wi,
                                !.applied[EdgeOf(tt.v, w)] = @ + 1,
                                !.num_had = IF e[2] = "N" THEN tt.num_had
                                            ELSE tt.num_had + 1]
    /\ UNCHANGED <<mat, rhs, mat0, ret, gs, ty, sout, graph, ct>>

\* mutant: wi is not shifted after the axis of v is removed
ContractV_no_shift ==
    /\ tt.pc = "contract_v"
    /\ tt' = IF vertex_type(graph, tt.v) # "B" /\ degree(graph, tt.v) = tt.deg_v
             THEN IF tt.vi >= Len(tt.a) THEN PanicTt("sum_axis: axis out of bounds")
                  ELSE [tt EXCEPT !.pc = "contract_w",
                                  !.a = sum_axis(tt.a, tt.vi),
                                  !.axv = RemoveAt(tt.axv, tt.vi),
                                  !.indexv = RemoveAt(tt.indexv, tt.vi)]
             ELSE [tt EXCEPT !.pc = "contract_w"]
    /\ UNCHANGED <<mat, rhs, mat0, ret, gs, ty, sout, graph, ct>>

\* lines 233-238
ContractV ==
    /\ tt.pc = "contract_v"
    /\ tt' = IF vertex_type(graph, tt.v) # "B" /\ degree(graph, tt.v) = tt.deg_v
             THEN IF tt.vi >= Len(tt.a) THEN PanicTt("sum_axis: axis out of bounds")
                  ELSE [tt EXCEPT !.pc = "contract_w",
                                  !.a = sum_axis(tt.a, tt.vi),
                                  !.axv = RemoveAt(tt.axv, tt.vi),
                                  !.indexv = RemoveAt(tt.indexv, tt.vi),
                                  !.wi = IF tt.wi > tt.vi THEN tt.wi - 1 ELSE tt.wi]
             ELSE [tt EXCEPT !.pc = "contract_w"]
    /\ UNCHANGED <<mat, rhs, mat0, ret, gs, ty, sout, graph, ct>>

\* lines 240-244
ContractW ==
    /\ tt.pc = "contract_w"
    /\ tt' = IF vertex_type(graph, tt.w) # "B" /\ degree(graph, tt.w) = tt.seenv[tt.w]
             THEN IF tt.wi >= Len(tt.a) THEN PanicTt("sum_axis: axis out of bounds")
                  ELSE [tt EXCEPT !.pc = "edges",
                                  !.a = sum_axis(tt.a, tt.wi),
                                  !.axv = RemoveAt(tt.axv, tt.wi),
                                  !.indexv = RemoveAt(tt.indexv, tt.wi)]
             ELSE [tt EXCEPT !.pc = "edges"]
    /\ UNCHANGED <<mat, rhs, mat0, ret, gs, ty, sout, graph, ct>>

\* mutant: seenv.insert(v, 0)
EndVertex_insert_zero ==
    /\ tt.pc = "edges"
    /\ tt.rest = {}
    /\ tt' = [tt EXCEPT !.pc = "loop",
                        !.vs = Tail(tt.vs),
                        !.seenv = [x \in DOMAIN tt.seenv \cup {tt.v} |->
                                      IF x = tt.v THEN 0 ELSE tt.seenv[x]]]
    /\ UNCHANGED <<mat, rhs, mat0, ret, gs, ty, sout, graph, ct>>

\* line 247: seenv.insert(v, deg_v), and on to the next vertex
EndVertex ==
    /\ tt.pc = "edges"
    /\ tt.rest = {}
    /\ tt' = [tt EXCEPT !.pc = "loop",
                        !.vs = Tail(tt.vs),
                        !.seenv = [x \in DOMAIN tt.seenv \cup {tt.v} |->
                                      IF x = tt.v THEN tt.deg_v ELSE tt.seenv[x]]]
    /\ UNCHANGED <<mat, rhs, mat0, ret, gs, ty, sout, graph, ct>>

\* lines 250-251: a * s keeps the shape
Finish ==
    /\ tt.pc = "loop"
    /\ tt.vs = <<>>
    /\ tt' = [tt EXCEPT !.pc = "done"]
    /\ UNCHANGED <<mat, rhs, mat0, ret, gs, ty, sout, graph, ct>>

NextDiagram ==
    \/ Begin
    \/ Introduce
    \/ \E e \in (IF tt.pc = "edges" THEN tt.rest ELSE {}) : Edge(e)
    \/ ContractV
    \/ ContractW
    \/ EndVertex
    \/ Finish

SpecDiagram == InitDiagram /\ [][NextDiagram]_vars

\* only boundary and Z vertices, and inputs followed by outputs lists every
\* boundary vertex once
Accepted(d) ==
    /\ \A v \in vertices(d) : vertex_type(d, v) \in {"B", "Z"}
    /\ \A v \in vertices(d) : vertex_type(d, v) = "B" =>
          Cardinality({i \in 1..Len(d.inputs \o d.outputs) :
                          (d.inputs \o d.outputs)[i] = v}) = 1

(***************************************************************************)
(* Specification SpecAccepted: to_tensor on the diagrams it accepts.       *)
(***************************************************************************)
InitAccepted == InitDiagram /\ Accepted(graph)

SpecAccepted == InitAccepted /\ [][NextDiagram]_vars

\* C15: for an accepted diagram the returned tensor has one axis (of extent
\* 2) per declared boundary vertex and no other: the inputs in declared order,
\* then the outputs in declared order, also with edgeless interior spiders.
C15_AxesAreBoundary ==
    (tt.pc = "done" /\ Accepted(graph)) =>
        /\ tt.indexv = inputs(graph) \o outputs(graph)
        /\ tt.a = [i \in 1..Len(inputs(graph) \o outputs(graph)) |-> 2]

\* C16: to_tensor aborts, before it processes any vertex, whenever a boundary
\* vertex is in neither inputs nor outputs, whatever the two lists hold.
C16_UnlistedBoundaryAborts ==
    (tt.pc # "idle" /\ \E v \in vertices(graph) :
                          /\ vertex_type(graph, v) = "B"
                          /\ \A i \in 1..Len(inputs(graph)) : inputs(graph)[i] # v
                          /\ \A i \in 1..Len(outputs(graph)) : outputs(graph)[i] # v)
        => tt.pc = "panic"

\* C17: after each vertex has been processed, and at the end, no interior
\* vertex whose accounted-edge count equals its degree is in openIndices.
C17_ContractWhenSaturated ==
    (tt.pc \in {"loop", "done"} /\ Accepted(graph)) =>
        \A i \in 1..Len(tt.indexv) :
            LET x == tt.indexv[i] IN
            (vertex_type(graph, x) # "B" /\ x \in DOMAIN tt.seenv)
                => tt.seenv[x] # degree(graph, x)


(***************************************************************************)
(* Tensor<A> with entries: shape is the list of extents, data maps each    *)
(* index tuple (entries 0-based, as in ndarray) to its entry.  An          *)
(* operation that panics yields PanicTensor, which later operations pass   *)
(* on.  t is the coefficient type of the entries (Scalar4 for to_tensor4). *)
(***************************************************************************)
Indices(shape) ==
    {ix \in [1..Len(shape) -> 0..1] : \A i \in 1..Len(shape) : ix[i] < shape[i]}

PanicTensor(msg) == [ok |-> FALSE, msg |-> msg, shape |-> <<>>, data |-> <<>>]

\* (the comparison makes TLC tabulate the entries once)
Tensor(shape, data) ==
    LET d == data
    IN IF d = d THEN [ok |-> TRUE, msg |-> "", shape |-> shape, data |-> d]
       ELSE PanicTensor("")

\* Tensor::ident(q)
ident(t, q) ==
    Tensor([i \in 1..(2 * q) |-> 2],
           [ix \in Indices([i \in 1..(2 * q) |-> 2]) |->
              IF \A i \in 1..q : ix[i] = ix[q + i] THEN one(t) ELSE zero(t)])

\* Tensor::hadamard()
hadamard(t) ==
    LET n == sqrt2_pow(t, -1)
        minus == from_phase(t, ROne)
    IN Tensor(<<2, 2>>,
              [ix \in Indices(<<2, 2>>) |->
                 IF ix = <<1, 1>> THEN scalar_mul(t, minus, n) ELSE n])

\* mutant: the phase is applied where any of the axes qs is 1
cphase_at_any(t, a, p, qs) ==
    IF ~a.ok THEN a
    ELSE IF ~AxesOk(a.shape, qs) THEN PanicTensor("Bad indices for cphase_at")
    ELSE Tensor(a.shape,
                [ix \in DOMAIN a.data |->
                   scalar_mul(t, a.data[ix],
                              IF \E i \in 1..Len(qs) : ix[qs[i] + 1] = 1
                              THEN from_phase(t, p) ELSE one(t))])

\* QubitOps::cphase_at(p, qs)
cphase_at(t, a, p, qs) ==
    IF ~a.ok THEN a
    ELSE IF ~AxesOk(a.shape, qs) THEN PanicTensor("Bad indices for cphase_at")
    ELSE Tensor(a.shape,
                [ix \in DOMAIN a.data |->
                   scalar_mul(t, a.data[ix],
                              IF \A i \in 1..Len(qs) : ix[qs[i] + 1] = 1
                              THEN from_phase(t, p) ELSE one(t))])

\* the index tuple ix with its entry at axis q set to b
SetAxis(ix, q, b) == [ix EXCEPT ![q + 1] = b]

\* mutant: the second element of each pair becomes n * (a + b) as well
hadamard_at_no_minus(t, a, q) ==
    IF ~a.ok THEN a
    ELSE IF q < 0 \/ q >= Len(a.shape) THEN PanicTensor("hadamard_at: no axis q")
    ELSE LET n == sqrt2_pow(t, -1) IN
         Tensor(a.shape,
                [ix \in DOMAIN a.data |->
                   scalar_mul(t, n, scalar_add(t, a.data[SetAxis(ix, q, 0)],
                                                  a.data[SetAxis(ix, q, 1)]))])

\* QubitOps::hadamard_at(q): (a, b) becomes (n * (a + b), n * (a + minus * b))
hadamard_at(t, a, q) ==
    IF ~a.ok THEN a
    ELSE IF q < 0 \/ q >= Len(a.shape) THEN PanicTensor("hadamard_at: no axis q")
    ELSE LET n == sqrt2_pow(t, -1)
             minus == from_phase(t, ROne)
         IN Tensor(a.shape,
                   [ix \in DOMAIN a.data |->
                      IF ix[q + 1] = 0
                      THEN scalar_mul(t, n, scalar_add(t, a.data[ix],
                                                       a.data[SetAxis(ix, q, 1)]))
                      ELSE scalar_mul(t, n,
                              scalar_add(t, a.data[SetAxis(ix, q, 0)],
                                         scalar_mul(t, minus, a.data[ix])))])

\* ArrayBase::swap_axes(i, j)
swap_axes(a, i, j) ==
    IF ~a.ok THEN a
    ELSE IF i < 0 \/ j < 0 \/ i >= Len(a.shape) \/ j >= Len(a.shape)
    THEN PanicTensor("swap_axes: axis out of bounds")
    ELSE Tensor([a.shape EXCEPT ![i + 1] = a.shape[j + 1], ![j + 1] = a.shape[i + 1]],
                [ix \in Indices([a.shape EXCEPT ![i + 1] = a.shape[j + 1],
                                                ![j + 1] = a.shape[i + 1]]) |->
                   a.data[[ix EXCEPT ![i + 1] = ix[j + 1], ![j + 1] = ix[i + 1]]]])

\* PartialEq for Tensor<A>: equal shapes and == entries
tensor_eq(a, b) ==
    /\ a.ok
    /\ b.ok
    /\ a.shape = b.shape
    /\ \A ix \in DOMAIN a.data : scalar_eq(a.data[ix], b.data[ix])


(***************************************************************************)
(* Circuit::to_tensor.  A gate is its kind t, its axis list qs and its      *)
(* phase; a circuit is its qubit count and its gate list.                   *)
(***************************************************************************)
Gate(t, qs, phase) == [t |-> t, qs |-> qs, phase |-> phase]

\* g.qs[i]; -1 stands for the index that is out of bounds
QAt(g, i) == IF i < Len(g.qs) THEN g.qs[i + 1] ELSE -1

UnsupportedKinds == {"ParityPhase", "InitAncilla", "PostSelect"}

\* mutant: PostSelect is ignored like UnknownGate
apply_gate_skip_post_select(t, a, g) ==
    IF ~a.ok THEN a
    ELSE IF g.t \in {"ParityPhase", "InitAncilla"} THEN PanicTensor("Unsupported gate")
    ELSE IF g.t = "HAD" THEN hadamard_at(t, a, QAt(g, 0))
    ELSE IF g.t = "CNOT"
    THEN hadamard_at(t, cphase_at(t, hadamard_at(t, a, QAt(g, 1)), ROne, g.qs), QAt(g, 1))
    ELSE IF g.t = "SWAP" THEN swap_axes(a, QAt(g, 0), QAt(g, 1))
    ELSE IF g.t \in {"Z", "CZ", "CCZ"} THEN cphase_at(t, a, ROne, g.qs)
    ELSE IF g.t = "T" THEN cphase_at(t, a, RNew(1, 4), g.qs)
    ELSE a

\* one arm of the match on g.t in the loop of to_tensor
apply_gate(t, a, g) ==
    IF ~a.ok THEN a
    ELSE CASE g.t = "ZPhase" -> cphase_at(t, a, g.phase, g.qs)
           [] g.t \in {"Z", "CZ", "CCZ"} -> cphase_at(t, a, ROne, g.qs)
           [] g.t = "S" -> cphase_at(t, a, RNew(1, 2), g.qs)
           [] g.t = "T" -> cphase_at(t, a, RNew(1, 4), g.qs)
           [] g.t = "Sdg" -> cphase_at(t, a, RNew(-1, 2), g.qs)
           [] g.t = "Tdg" -> cphase_at(t, a, RNew(-1, 4), g.qs)
           [] g.t = "HAD" -> hadamard_at(t, a, QAt(g, 0))
           [] g.t = "NOT" ->
                hadamard_at(t, cphase_at(t, hadamard_at(t, a, QAt(g, 0)), ROne, g.qs),
                            QAt(g, 0))
           [] g.t = "XPhase" ->
                hadamard_at(t, cphase_at(t, hadamard_at(t, a, QAt(g, 0)), g.phase, g.qs),
                            QAt(g, 0))
           [] g.t = "CNOT" ->
                hadamard_at(t, cphase_at(t, hadamard_at(t, a, QAt(g, 1)), ROne, g.qs),
                            QAt(g, 1))
           [] g.t = "TOFF" ->
                hadamard_at(t, cphase_at(t, hadamard_at(t, a, QAt(g, 2)), ROne, g.qs),
                            QAt(g, 2))
           [] g.t = "SWAP" -> swap_axes(a, QAt(g, 0), QAt(g, 1))
           [] g.t = "XCX" ->
                hadamard_at(t,
                  hadamard_at(t,
                    cphase_at(t,
                      hadamard_at(t, hadamard_at(t, a, QAt(g, 0)), QAt(g, 1)),
                      g.phase, g.qs),
                    QAt(g, 0)),
                  QAt(g, 1))
           [] g.t \in UnsupportedKinds -> PanicTensor("Unsupported gate")
           [] g.t = "UnknownGate" -> a

\* the loop over self.gates.iter().rev(): gates i, i - 1, .., 1 applied to a
RECURSIVE ApplyGates(_, _, _, _)
ApplyGates(t, a, gates, i) ==
    IF i = 0 THEN a ELSE ApplyGates(t, apply_gate(t, a, gates[i]), gates, i - 1)

\* Circuit::to_tensor
to_tensor(t, q, gates) == ApplyGates(t, ident(t, q), gates, Len(gates))

\* the gates the circuits are made of: every arm of the match that the claims
\* are about, on the axes of the first two qubits, and one CZ whose two axes
\* coincide
GateSet ==
    {Gate("UnknownGate", <<0>>, RZero), Gate("ParityPhase", <<0, 1>>, RZero),
     Gate("InitAncilla", <<0>>, RZero), Gate("PostSelect", <<0>>, RZero),
     Gate("CNOT", <<0, 1>>, RZero), Gate("CNOT", <<1, 0>>, RZero),
     Gate("SWAP", <<0, 1>>, RZero),
     Gate("CZ", <<0, 0>>, RZero)}

CnotTriple ==
    <<Gate("CNOT", <<0, 1>>, RZero), Gate("CNOT", <<1, 0>>, RZero),
      Gate("CNOT", <<0, 1>>, RZero)>>

SwapCircuit == <<Gate("SWAP", <<0, 1>>, RZero)>>

IsKnown(g) == g.t # "UnknownGate"

\* the gate list without its UnknownGate entries
WithoutUnknown(gates) == SelectSeq(gates, IsKnown)

\* ct.a is to_tensor4() of the two-qubit circuit with the gate list ct.gates,
\* ct.b that of the circuit with the gate list ct.other; both start as the
\* circuit without gates, whose loop does not run
InitCircuit ==
    /\ mat = <<>>
    /\ rhs = <<>>
    /\ mat0 = <<>>
    /\ ret = NoRet
    /\ gs = NoGs
    /\ ty = 4
    /\ sout = NoSout
    /\ graph = NoGraph
    /\ tt = NoTt
    /\ ct = [pc |-> "circuit", q |-> 2, gates |-> <<>>, other |-> <<>>,
             a |-> ident(4, 2), b |-> ident(4, 2)]

\* to_tensor4() of the circuit with g put before the gate list: the loop runs
\* from the last gate to the first, so it does what it did for ct.gates and
\* then, unless it has aborted, the iteration for g.  ct.other is the same
\* list without its UnknownGate entries.
PushFront(g) ==
    /\ ct.pc = "circuit"
    /\ Len(ct.gates) < MaxGates
    /\ ct' = [ct EXCEPT !.gates = <<g>> \o ct.gates,
                        !.other = WithoutUnknown(<<g>> \o ct.gates),
                        !.a = apply_gate(ty, ct.a, g),
                        !.b = IF IsKnown(g) THEN apply_gate(ty, ct.b, g) ELSE ct.b]
    /\ UNCHANGED <<mat, rhs, mat0, ret, gs, ty, sout, graph, tt>>

NextCircuit == \E g \in GateSet : PushFront(g)

SpecCircuit == InitCircuit /\ [][NextCircuit]_vars

HasUnsupported(gates) == \E i \in 1..Len(gates) : gates[i].t \in UnsupportedKinds

\* every gate names distinct qubits of the circuit
WellFormed(q, gates) ==
    \A i \in 1..Len(gates) :
        /\ \A j \in 1..Len(gates[i].qs) : gates[i].qs[j] \in 0..(q - 1)
        /\ \A j, k \in 1..Len(gates[i].qs) : j # k => gates[i].qs[j] # gates[i].qs[k]

C19_CnotTripleIsSwap ==
    /\ (ct.pc = "circuit" /\ ct.gates = CnotTriple)
          => /\ ct.a = to_tensor(ty, ct.q, CnotTriple)
             /\ tensor_eq(ct.a, to_tensor(ty, ct.q, SwapCircuit))
    /\ (ct.pc = "circuit" /\ Len(ct.gates) = 2)
          => ct.a = apply_gate(ty, apply_gate(ty, ident(ty, ct.q), ct.gates[2]),
                               ct.gates[1])

C19_Witness ==
    /\ ct.pc = "circuit"
    /\ ct.q = 2
    /\ ct.gates = CnotTriple
    /\ ct.a.ok
    /\ ct.a.shape = <<2, 2, 2, 2>>
    /\ ct.a.data[<<0, 1, 1, 0>>] = one(ty)
    /\ ct.a.data[<<0, 1, 0, 1>>] = zero(ty)
    /\ ct.a = swap_axes(ident(ty, 2), 0, 1)


(***************************************************************************)
(* hadamard_at on tensors of exact Scalar4 entries: ct.a0 is the tensor at  *)
(* the start, ct.a the tensor now, ct.cnt[q + 1] the number of              *)
(* hadamard_at(q) applied so far, in whatever order.                        *)
(***************************************************************************)
HadScalars(t) == {zero(t), one(t), from_phase(t, RNew(1, 4))}

\* the tensors of one or two axes of extent 2 with entries of HadScalars, and
\* one tensor of three axes
HadTensors(t) ==
    {Tensor(<<2>>, d) : d \in [Indices(<<2>>) -> HadScalars(t)]}
    \cup {Tensor(<<2, 2>>, d) : d \in [Indices(<<2, 2>>) -> HadScalars(t)]}
    \cup {Tensor(<<2, 2, 2>>,
                 [ix \in Indices(<<2, 2, 2>>) |->
                    IF ix = <<1, 1, 1>> THEN from_phase(t, RNew(1, 4))
                    ELSE IF ix = <<0, 0, 1>> THEN zero(t) ELSE one(t)])}

InitHadamard ==
    /\ mat = <<>>
    /\ rhs = <<>>
    /\ mat0 = <<>>
    /\ ret = NoRet
    /\ gs = NoGs
    /\ ty = 4
    /\ sout = NoSout
    /\ graph = NoGraph
    /\ tt = NoTt
    /\ \E a \in HadTensors(4) :
         ct = [pc |-> "had", a0 |-> a, a |-> a, cnt |-> [i \in 1..Len(a.shape) |-> 0]]

\* arr.hadamard_at(q)
HadamardAt(q) ==
    /\ ct.pc = "had"
    /\ ct.cnt[q + 1] < MaxHad
    /\ ct' = [ct EXCEPT !.a = hadamard_at(ty, ct.a, q), !.cnt[q + 1] = @ + 1]
    /\ UNCHANGED <<mat, rhs, mat0, ret, gs, ty, sout, graph, tt>>

NextHadamard ==
    \E q \in (IF ct.pc = "had" THEN 0..(Len(ct.a.shape) - 1) ELSE {}) : HadamardAt(q)

SpecHadamard == InitHadamard /\ [][NextHadamard]_vars

\* C20: on a tensor of exact Scalar4 entries with axes of extent 2, four
\* hadamard_at(q) give back the original tensor exactly, also when they are
\* interleaved with the four hadamard_at of other axes; hadamard_at on two
\* distinct axes commute; hadamard_at(0) of ident(1) is hadamard().
C20_HadamardFourTimes ==
    ct.pc = "had" =>
        /\ (\A i \in 1..Len(ct.cnt) : ct.cnt[i] \in {0, 4})
              => ct.a = ct.a0 /\ tensor_eq(ct.a, ct.a0)
        /\ \A q, r \in 0..(Len(ct.a.shape) - 1) :
              q < r => hadamard_at(ty, hadamard_at(ty, ct.a, q), r)
                         = hadamard_at(ty, hadamard_at(ty, ct.a, r), q)
        /\ (ct.a0 = ident(ty, 1) /\ ct.cnt = <<1, 0>>) => tensor_eq(ct.a, hadamard(ty))

C20_Witness ==
    /\ ct.pc = "had"
    /\ ct.a0.shape = <<2, 2>>
    /\ ct.a0.data[<<0, 0>>] = one(ty)
    /\ ct.a0.data[<<0, 1>>] = from_phase(ty, RNew(1, 4))
    /\ ct.a0.data[<<1, 0>>] = zero(ty)
    /\ ct.a0.data[<<1, 1>>] = one(ty)
    /\ ct.cnt = <<4, 4>>
    /\ ct.a = ct.a0


(***************************************************************************)
(* Specification SpecFallback: + and * of two Exact values at a Coeffs     *)
(* type whose new(lcm) can be None.  The trait lets new() return None; of  *)
(* the implementations in scalar.rs none does so for the lcm of the orders *)
(* of two of its own values, so the type here is the bounded one.          *)
(***************************************************************************)
InitFallback ==
    /\ mat = <<>>
    /\ rhs = <<>>
    /\ mat0 = <<>>
    /\ ret = NoRet
    /\ gs = NoGs
    /\ ty = BoundedTy
    /\ sout = NoSout
    /\ graph = NoGraph
    /\ tt = NoTt
    /\ ct = NoCt

\* &x + &y
AddExact(x, y) ==
    /\ sout.op = "none"
    /\ sout' = [op |-> "add", a |-> x, b |-> y, val |-> scalar_add(ty, x, y)]
    /\ UNCHANGED <<mat, rhs, mat0, ret, gs, ty, graph, tt, ct>>

\* &x * &y
MulExact(x, y) ==
    /\ sout.op = "none"
    /\ sout' = [op |-> "mul", a |-> x, b |-> y, val |-> scalar_mul(ty, x, y)]
    /\ UNCHANGED <<mat, rhs, mat0, ret, gs, ty, graph, tt, ct>>

NextFallback ==
    \/ \E x, y \in ExactValues(ty) : AddExact(x, y)
    \/ \E x, y \in ExactValues(ty) : MulExact(x, y)

SpecFallback == InitFallback /\ [][NextFallback]_vars

\* Coeffs::new(lcm) is None for the orders of a and b
Unrepresentable(t, a, b) ==
    ~CoeffsNew(t, lcm_with_padding(Len(a.coeffs), Len(b.coeffs))[1]).some

\* C21: when the common order of two Exact values x and y is not representable,
\* x + y is the Float of float_value(x) + float_value(y), as x * y is the Float
\* of float_value(x) * float_value(y).
C21_AddFallbackBothOperands ==
    /\ (sout.op = "add" /\ Unrepresentable(ty, sout.a, sout.b))
          => sout.val = Float(CplxAdd(float_value(sout.a), float_value(sout.b)))
    /\ (sout.op = "mul" /\ Unrepresentable(ty, sout.a, sout.b))
          => sout.val = Float(CplxMul(float_value(sout.a), float_value(sout.b)))


\* every entry is 0
IsZeroMat(d) == \A i \in 1..Len(d) : \A j \in 1..Len(d[i]) : d[i][j] = 0

\* C22: for every matrix, all-zero ones and ones without rows or columns
\* included, gauss(true) runs to completion and returns the pivot count of
\* gauss(false); inverse() of an all-zero square matrix returns None rather
\* than aborting.
C22_FullReduceCompletes ==
    /\ (ret.op = "gauss" /\ ret.full_reduce)
          => ret.kind = "ok" /\ ret.val = rank(mat0)
    /\ (ret.op = "inverse" /\ IsSquare(mat0) /\ num_rows(mat0) >= 1 /\ IsZeroMat(mat0))
          => ret.kind = "ok" /\ ~ret.some


\* the vertices introduced so far: those whose step is over and the one in
\* process
Finished == DOMAIN tt.seenv
InProcess == IF tt.pc \in {"edges", "contract_v", "contract_w"} THEN {tt.v} ELSE {}

\* how often the edge x should have been applied by now: once, from the moment
\* the step of its later-processed endpoint has come to it
AppliedByNow(x) ==
    IF graph.ed[x] = "none" THEN 0
    ELSE IF x[1] \in Finished /\ x[2] \in Finished THEN 1
    ELSE IF x[1] \in InProcess /\ x[2] \in Finished
    THEN (IF <<x[2], graph.ed[x]>> \in tt.rest THEN 0 ELSE 1)
    ELSE IF x[2] \in InProcess /\ x[1] \in Finished
    THEN (IF <<x[1], graph.ed[x]>> \in tt.rest THEN 0 ELSE 1)
    ELSE 0

\* C23: in a simple diagram whose processing order holds each vertex exactly
\* once, every edge is applied to the running tensor exactly once, in the step
\* of the later-processed of its two endpoints; at the end every vertex's
\* accounted-edge count is its degree and the Hadamard-edge counter is the
\* number of Hadamard edges.
C23_EachEdgeOnce ==
    (tt.pc \notin {"idle", "panic"} /\ Accepted(graph)) =>
        /\ \A x \in VPairs(graph.n) : tt.applied[x] = AppliedByNow(x)
        /\ tt.pc = "done" =>
              /\ \A x \in VPairs(graph.n) :
                    tt.applied[x] = (IF graph.ed[x] = "none" THEN 0 ELSE 1)
              /\ \A v \in vertices(graph) :
                    v \in DOMAIN tt.seenv /\ tt.seenv[v] = degree(graph, v)
              /\ tt.num_had = Cardinality({x \in VPairs(graph.n) : graph.ed[x] = "H"})

\* a triangle: the input 0 joined to the spiders 1 and 2, which share a
\* Hadamard edge
C23_Witness ==
    /\ tt.pc = "done"
    /\ graph.n = 3
    /\ graph.vtype = <<"B", "Z", "Z">>
    /\ graph.ed[<<0, 1>>] = "N"
    /\ graph.ed[<<1, 2>>] = "H"
    /\ graph.ed[<<0, 2>>] = "N"
    /\ graph.inputs = <<0>>
    /\ tt.num_had = 1
    /\ tt.seenv = (0 :> 2 @@ 1 :> 2 @@ 2 :> 2)
    /\ \A x \in VPairs(3) : tt.applied[x] = 1

\* the test that the axis of w is about to be summed out
ContractsW == vertex_type(graph, tt.w) # "B" /\ degree(graph, tt.w) = tt.seenv[tt.w]

\* C24: after every vertex introduction and every contraction the running
\* tensor has as many axes as openIndices has entries, each of extent 2, axis i
\* being the one of the vertex openIndices[i]; the vertex in process is at
\* position 0 until it is contracted; every position passed to delta_at,
\* cphase_at or the axis sum is the current position of its vertex, the two
\* positions of an edge differ, and the position of w is one less after the
\* axis of v is removed.
C24_AxesFollowOpenIndices ==
    /\ (tt.pc \in {"loop", "edges", "contract_v", "contract_w", "done"} /\ ~tt.fst) =>
          /\ Len(tt.a) = Len(tt.indexv)
          /\ \A i \in 1..Len(tt.a) : tt.a[i] = 2
          /\ tt.axv = tt.indexv
    /\ (tt.pc = "edges" /\ tt.v \in {tt.indexv[i] : i \in 1..Len(tt.indexv)}) =>
          tt.indexv[1] = tt.v
    /\ tt.pc = "contract_v" =>
          /\ tt.vi = 0
          /\ tt.wi > 0 /\ tt.wi < Len(tt.a)
          /\ tt.indexv[tt.vi + 1] = tt.v
          /\ tt.indexv[tt.wi + 1] = tt.w
    /\ (tt.pc = "contract_w" /\ ContractsW) =>
          /\ tt.wi >= 0 /\ tt.wi < Len(tt.a)
          /\ tt.indexv[tt.wi + 1] = tt.w
    /\ tt.pc = "panic" =>
          tt.msg \notin {"Bad indices for delta_at", "Bad indices for cphase_at",
                         "sum_axis: axis out of bounds"}


\* a triangle of three spiders: the last edge of vertex 0 has contracted it, and
\* the position of w = 2 has gone from 1 to 0
C24_Witness ==
    /\ tt.pc = "contract_w"
    /\ graph.n = 3
    /\ graph.vtype = <<"Z", "Z", "Z">>
    /\ \A x \in VPairs(3) : graph.ed[x] = "N"
    /\ tt.v = 0
    /\ tt.w = 2
    /\ tt.vi = 0
    /\ tt.wi = 0
    /\ tt.indexv = <<2>>
    /\ tt.a = <<2>>
    /\ ContractsW

====
